---------------------------- MODULE Spec2Model ----------------------------
(***************************************************************************)
(* A model of rds_param_group_util.py: the paginated listing and fetching  *)
(* of RDS parameter groups, the reindexing and diffing of two parameter    *)
(* collections, the chunked posting of parameters, and the copy, compare   *)
(* and merge workflows started from the command line.                      *)
(*                                                                         *)
(* A Python dict is modelled as a sequence of entries [k, v] in insertion  *)
(* order with unique keys; a boto3 response or parameter dict is a TLA+    *)
(* function over the string keys it carries, so that `"K" in d` is         *)
(* "K" \in DOMAIN d.                                                       *)
(***************************************************************************)
EXTENDS Integers, Sequences, FiniteSets, TLC

VARIABLES
    pc,                 \* position of the running process
    err,                \* the exception that ended the run, or NoError
    environ,            \* os.environ, restricted to AWS_DEFAULT_REGION
    argv,               \* the command line: action and the two region options
    args,               \* the parsed arguments: action, source_region, dest_region
    clients,            \* region_name of source_client and dest_client
    source_list,        \* the records describe_db_parameters serves for the source group
    dest_list,          \* the records describe_db_parameters serves for the destination group
    source_parameters,  \* compare_rds_parameters: source_parameters after reindexing
    dest_parameters,    \* compare_rds_parameters: dest_parameters after reindexing
    report,             \* the diff-like report printed by compare_rds_parameters
    returned,           \* the value compare_rds_parameters returns
    region_groups,      \* the group names the destination region holds, in listing order
    missing,            \* the groups the remote service reports as not found
    dest_store,         \* the remote destination group: parameter name -> record
    parameters,         \* post_parameters_to_group: the list to post
    start,              \* chunks: start
    calls,              \* the mutating remote calls issued, in call order
    printed,            \* the "name = value" lines printed by post_parameters_to_group
    pages,              \* the page sequence the remote provider serves
    pagination_token,   \* the pagination loops' pagination_token
    requests,           \* the Marker argument of every describe request issued
    to_return           \* groups_to_return / parameters_to_return

vars == <<pc, err, environ, argv, args, clients, source_list, dest_list,
          source_parameters, dest_parameters, report, returned, region_groups, missing,
          dest_store, parameters, start, calls, printed, pages,
          pagination_token, requests, to_return>>

startVars == <<environ, argv, args, clients>>
remoteVars == <<source_list, dest_list, region_groups, missing>>
diffVars == <<source_parameters, dest_parameters, report, returned>>
postVars == <<dest_store, parameters, start, calls, printed>>
pageVars == <<pages, pagination_token, requests, to_return>>

---------------------------------------------------------------------------
(* Bounds of the model. *)

\* longest collection compared by the diff engine
MaxLen == 2
\* longest list handed to post_parameters_to_group on its own
MaxPost == 41
\* longest page sequence served to a pagination loop on its own
MaxPages == 3
\* most records a remote group holds, and most groups a region lists, in the workflows
MaxStored == 2
\* largest page the remote service serves in the workflows
MaxPageSize == 1

---------------------------------------------------------------------------
(* Values. *)

None == "None"
False == "False"
NotGiven == "NotGiven"
Unset == "Unset"

\* What compare_rds_parameters returns: None, or its diff_list.
ReturnNone == [type |-> "NoneType"]
ReturnList(l) == [type |-> "list", value |-> l]
NoError == [type |-> "none", line |-> 0]

\* The parameter names: the key string itself is a possible name.
Names == {"x", "y", "ParameterName"}
Values == {"1", "2"}

\* A parameter record as describe_db_parameters returns it: ParameterValue
\* is a key of the dict only when the parameter has a value.
Records ==
    [ParameterName : Names, IsModifiable : BOOLEAN]
        \cup [ParameterName : Names, ParameterValue : Values, IsModifiable : BOOLEAN]

SeqsUpTo(S, n) == UNION {[1..k -> S] : k \in 0..n}

NameList(list) == [i \in DOMAIN list |-> list[i]["ParameterName"]]
Range(s) == {s[i] : i \in DOMAIN s}
UniqueNames(list) == Cardinality(Range(NameList(list))) = Len(list)

---------------------------------------------------------------------------
(* Python dict, as a sequence of entries in insertion order. *)

Keys(d) == {d[i].k : i \in DOMAIN d}
DictGet(d, k) == d[CHOOSE i \in DOMAIN d : d[i].k = k].v
DictSet(d, k, v) ==
    IF k \in Keys(d)
    THEN [i \in DOMAIN d |-> IF d[i].k = k THEN [k |-> k, v |-> v] ELSE d[i]]
    ELSE Append(d, [k |-> k, v |-> v])
DictDel(d, k) == SelectSeq(d, LAMBDA e : e.k # k)

---------------------------------------------------------------------------
(* Helpers of the script. *)

append_if_value_present(list_to_append, eval_append) ==
    IF "ParameterValue" \in DOMAIN eval_append
    THEN Append(list_to_append, eval_append)
    ELSE list_to_append

\* change_list_to_dict: the loop from element i on, with dict_to_export = d.
\* The test made on every element is whether `key` itself is a key of the dict.
RECURSIVE ChangeLoop(_, _, _, _)
ChangeLoop(list_to_convert, key, i, d) ==
    IF i > Len(list_to_convert)
    THEN [raised |-> FALSE, dict |-> d]
    ELSE IF key \in Keys(d)
         THEN [raised |-> TRUE, dict |-> d]
         ELSE ChangeLoop(list_to_convert, key, i + 1,
                         DictSet(d, list_to_convert[i][key], list_to_convert[i]))

change_list_to_dict(list_to_convert, key) == ChangeLoop(list_to_convert, key, 1, <<>>)

---------------------------------------------------------------------------
(* compare_rds_parameters: the two loops over the reindexed collections. *)

\* A report entry: the name line, the "<" line and the ">" line (each
\* present or not).
Entry(name, lt, gt) == [name |-> name, lt |-> lt, gt |-> gt]

\* A first loop that reports a changed parameter without adding it to the
\* diff list.
RECURSIVE SourceLoopChangedNotListed(_, _, _)
SourceLoopChangedNotListed(src, i, acc) ==
    IF i > Len(src) THEN acc
    ELSE LET param_name == src[i].k IN
         IF param_name \notin Keys(acc.dest)
         THEN SourceLoopChangedNotListed(src, i + 1,
                [report |-> Append(acc.report,
                                   Entry(param_name, <<DictGet(src, param_name)>>, <<>>)),
                 diff_list |-> append_if_value_present(acc.diff_list,
                                                       DictGet(src, param_name)),
                 dest |-> acc.dest])
         ELSE IF DictGet(src, param_name) # DictGet(acc.dest, param_name)
         THEN SourceLoopChangedNotListed(src, i + 1,
                [report |-> Append(acc.report,
                                   Entry(param_name, <<DictGet(src, param_name)>>,
                                         <<DictGet(acc.dest, param_name)>>)),
                 diff_list |-> acc.diff_list,
                 dest |-> DictDel(acc.dest, param_name)])
         ELSE SourceLoopChangedNotListed(src, i + 1, acc)

\* The first loop, from the i-th item of source_parameters on;
\* acc = [report, diff_list, dest] is what the loop has built so far.
RECURSIVE SourceLoop(_, _, _)
SourceLoop(src, i, acc) ==
    IF i > Len(src) THEN acc
    ELSE LET param_name == src[i].k IN
         IF param_name \notin Keys(acc.dest)
         THEN SourceLoop(src, i + 1,
                [report |-> Append(acc.report,
                                   Entry(param_name, <<DictGet(src, param_name)>>, <<>>)),
                 diff_list |-> append_if_value_present(acc.diff_list,
                                                       DictGet(src, param_name)),
                 dest |-> acc.dest])
         ELSE IF DictGet(src, param_name) # DictGet(acc.dest, param_name)
         THEN SourceLoop(src, i + 1,
                [report |-> Append(acc.report,
                                   Entry(param_name, <<DictGet(src, param_name)>>,
                                         <<DictGet(acc.dest, param_name)>>)),
                 diff_list |-> append_if_value_present(acc.diff_list,
                                                       DictGet(src, param_name)),
                 dest |-> DictDel(acc.dest, param_name)])
         ELSE SourceLoop(src, i + 1, acc)

\* The second loop, over what is left of dest_parameters.
RECURSIVE DestLoop(_, _, _, _)
DestLoop(src, dest, i, rep) ==
    IF i > Len(dest) THEN rep
    ELSE IF dest[i].k \notin Keys(src)
         THEN DestLoop(src, dest, i + 1,
                       Append(rep, Entry(dest[i].k, <<>>, <<DictGet(dest, dest[i].k)>>)))
         ELSE DestLoop(src, dest, i + 1, rep)

\* The second loop and the return statement, acc being what the first loop
\* has built.
DiffReturn(src, acc, return_list) ==
    [report |-> DestLoop(src, acc.dest, 1, acc.report),
     dest |-> acc.dest,
     returned |-> IF return_list = FALSE THEN ReturnNone ELSE ReturnList(acc.diff_list)]

\* Both loops and the return statement, on the reindexed collections.
DiffLoops(src, dest, return_list) ==
    DiffReturn(src,
               SourceLoop(src, 1, [report |-> <<>>, diff_list |-> <<>>, dest |-> dest]),
               return_list)

\* The function from its first reindexing on, s and d being what
\* change_list_to_dict gives for the source and for the destination: an
\* exception leaves the function at the call that raises it.
CompareReindexed(s, d, r, source, dest) ==
    IF s.raised
    THEN [err |-> [type |-> "Exception", line |-> 207],
          source_parameters |-> source, dest_parameters |-> dest,
          report |-> <<>>, returned |-> ReturnNone]
    ELSE IF d.raised
    THEN [err |-> [type |-> "Exception", line |-> 208],
          source_parameters |-> s.dict, dest_parameters |-> dest,
          report |-> <<>>, returned |-> ReturnNone]
    ELSE [err |-> NoError,
          source_parameters |-> s.dict, dest_parameters |-> r.dest,
          report |-> r.report, returned |-> r.returned]

\* The whole function on two fetched collections: the reindexing of the
\* source, then of the destination, then the loops.
compare_rds_parameters(source, dest, return_list) ==
    CompareReindexed(change_list_to_dict(source, "ParameterName"),
                     change_list_to_dict(dest, "ParameterName"),
                     DiffLoops(change_list_to_dict(source, "ParameterName").dict,
                               change_list_to_dict(dest, "ParameterName").dict,
                               return_list),
                     source, dest)

---------------------------------------------------------------------------
(* post_parameters_to_group and chunks. *)

\* the chunk size post_parameters_to_group passes to chunks
BatchSize == 20

Min(a, b) == IF a < b THEN a ELSE b

\* chunks as a strategy that leaves the elements after the last full chunk
\* off the end.
ChunkLeavesOffEnd(sequence, st, chunk_size) ==
    SubSeq(sequence, st + 1,
           Min(st + chunk_size, Len(sequence) - (Len(sequence) % chunk_size)))

\* chunks: the slice yielded when the generator's start is st (0-based),
\* sequence[start : start + chunk_size].
Chunk(sequence, st, chunk_size) ==
    SubSeq(sequence, st + 1, Min(st + chunk_size, Len(sequence)))

\* The line printed for one record of a chunk.
PrintLine(p) == [name |-> p["ParameterName"], value |-> p["ParameterValue"]]
PrintLines(chunk) == [i \in DOMAIN chunk |-> PrintLine(chunk[i])]

\* The remote group after a modify call it accepts: every record of the call
\* is stored under its name, a later record of the call over an earlier one.
RECURSIVE StoreAll(_, _, _)
StoreAll(store, chunk, i) ==
    IF i > Len(chunk) THEN store
    ELSE StoreAll([n \in DOMAIN store \cup {chunk[i]["ParameterName"]} |->
                      IF n = chunk[i]["ParameterName"] THEN chunk[i] ELSE store[n]],
                  chunk, i + 1)

ModifyCall(region, param_group, chunk, ok) ==
    [op |-> "modify_db_parameter_group", region |-> region,
     DBParameterGroupName |-> param_group, Parameters |-> chunk, ok |-> ok]

---------------------------------------------------------------------------
(* The pagination loops of return_parameter_groups and                     *)
(* return_all_parameters_from_parameter_group.  The provider serves the    *)
(* pages of a sequence one per request, in order; a response carries the   *)
(* key Marker or not.                                                      *)

\* The request a loop issues when its pagination_token is `token`.
DescribeRequest(op, token) ==
    IF token = None THEN [op |-> op] ELSE [op |-> op, Marker |-> token]

\* A loop that stops after its first response.
NextTokenIgnoresMarker(chunk) == False

\* The token a loop keeps after a response.
NextToken(chunk) == IF "Marker" \in DOMAIN chunk THEN chunk["Marker"] ELSE False

\* The names appended for one response of describe_db_parameter_groups.
GroupNamesOf(group_chunk) ==
    [i \in DOMAIN group_chunk["DBParameterGroups"] |->
        group_chunk["DBParameterGroups"][i]["DBParameterGroupName"]]

\* return_parameter_groups on a page sequence: the loop after n requests.
RECURSIVE GroupsLoop(_, _, _, _)
GroupsLoop(served, n, token, groups_to_return) ==
    IF token = False THEN groups_to_return
    ELSE GroupsLoop(served, n + 1, NextToken(served[n + 1]),
                    groups_to_return \o GroupNamesOf(served[n + 1]))

\* A listing that reads the first page only.
return_parameter_groups_first_page(served) == GroupNamesOf(served[1])

return_parameter_groups(served) == GroupsLoop(served, 0, None, <<>>)

\* return_all_parameters_from_parameter_group on a page sequence.
RECURSIVE ParametersLoop(_, _, _, _)
ParametersLoop(served, n, token, parameters_to_return) ==
    IF token = False THEN parameters_to_return
    ELSE ParametersLoop(served, n + 1, NextToken(served[n + 1]),
                        parameters_to_return \o served[n + 1]["Parameters"])

return_all_parameters_from_parameter_group(served) == ParametersLoop(served, 0, None, <<>>)

\* A filter that does not test IsModifiable.
RECURSIVE ModifiableLoopAnyFlag(_, _, _)
ModifiableLoopAnyFlag(all_parameters, i, parameters_to_return) ==
    IF i > Len(all_parameters) THEN parameters_to_return
    ELSE ModifiableLoopAnyFlag(all_parameters, i + 1,
            append_if_value_present(parameters_to_return, all_parameters[i]))

\* return_all_modifiable_parameters_with_value_from_parameter_group: the
\* loop over all_parameters from element i on.
RECURSIVE ModifiableLoop(_, _, _)
ModifiableLoop(all_parameters, i, parameters_to_return) ==
    IF i > Len(all_parameters) THEN parameters_to_return
    ELSE ModifiableLoop(all_parameters, i + 1,
            IF all_parameters[i]["IsModifiable"]
            THEN append_if_value_present(parameters_to_return, all_parameters[i])
            ELSE parameters_to_return)

return_all_modifiable_parameters_with_value_from_parameter_group(served) ==
    ModifiableLoop(return_all_parameters_from_parameter_group(served), 1, <<>>)

---------------------------------------------------------------------------
(* Defaults for the variables a specification does not use. *)

DefaultArgv == [action |-> "compare", source_region |-> NotGiven, dest_region |-> NotGiven]
DefaultArgs == [action |-> "compare", source_region |-> "us-east-1", dest_region |-> "us-east-1"]
DefaultClients == [source |-> "us-east-1", dest |-> "us-east-1"]

StartIdle ==
    /\ environ = "us-east-1"
    /\ clients = DefaultClients
RemoteIdle ==
    /\ source_list = <<>>
    /\ dest_list = <<>>
    /\ region_groups = <<>>
    /\ missing = {}
DiffIdle ==
    /\ source_parameters = <<>>
    /\ dest_parameters = <<>>
    /\ report = <<>>
    /\ returned = ReturnNone
PostIdle ==
    /\ dest_store = <<>>
    /\ parameters = <<>>
    /\ start = 0
    /\ calls = <<>>
    /\ printed = <<>>
PageIdle ==
    /\ pages = <<>>
    /\ pagination_token = None
    /\ requests = <<>>
    /\ to_return = <<>>

---------------------------------------------------------------------------
(* The diff engine on its own: compare_rds_parameters from the point where *)
(* both collections have been fetched, on every pair of collections of at  *)
(* most MaxLen records (names repeated or not), called by the compare      *)
(* workflow (return_list=False) or by the merge workflow (return_list=True)*)

InitDiff ==
    /\ pc = "reindex"
    /\ err = NoError
    /\ \E a \in {"compare", "merge"} :
            /\ argv = [DefaultArgv EXCEPT !.action = a]
            /\ args = [DefaultArgs EXCEPT !.action = a]
    /\ StartIdle
    /\ source_list \in SeqsUpTo(Records, MaxLen)
    /\ dest_list \in SeqsUpTo(Records, MaxLen)
    /\ region_groups = <<>>
    /\ missing = {}
    /\ DiffIdle
    /\ PostIdle
    /\ PageIdle

\* Reindexing the source raises.
ReindexSourceRaises ==
    /\ pc = "reindex"
    /\ change_list_to_dict(source_list, "ParameterName").raised
    /\ pc' = "failed"
    /\ err' = [type |-> "Exception", line |-> 207]
    /\ UNCHANGED <<startVars, remoteVars, diffVars, postVars, pageVars>>

\* Reindexing the source succeeds, reindexing the destination raises.
ReindexDestRaises ==
    /\ pc = "reindex"
    /\ ~change_list_to_dict(source_list, "ParameterName").raised
    /\ change_list_to_dict(dest_list, "ParameterName").raised
    /\ source_parameters' = change_list_to_dict(source_list, "ParameterName").dict
    /\ pc' = "failed"
    /\ err' = [type |-> "Exception", line |-> 208]
    /\ UNCHANGED <<startVars, remoteVars, dest_parameters, report, returned,
                   postVars, pageVars>>

\* Both collections are reindexed.
Reindex ==
    /\ pc = "reindex"
    /\ ~change_list_to_dict(source_list, "ParameterName").raised
    /\ ~change_list_to_dict(dest_list, "ParameterName").raised
    /\ source_parameters' = change_list_to_dict(source_list, "ParameterName").dict
    /\ dest_parameters' = change_list_to_dict(dest_list, "ParameterName").dict
    /\ pc' = "diff"
    /\ UNCHANGED <<err, startVars, remoteVars, report, returned, postVars, pageVars>>

DiffOutcome(r) ==
    /\ report' = r.report
    /\ dest_parameters' = r.dest
    /\ returned' = r.returned

\* The two loops and the return.
Diff ==
    /\ pc = "diff"
    /\ DiffOutcome(DiffLoops(source_parameters, dest_parameters, args.action = "merge"))
    /\ pc' = "done"
    /\ UNCHANGED <<err, startVars, remoteVars, source_parameters, postVars, pageVars>>

NextDiff == ReindexSourceRaises \/ ReindexDestRaises \/ Reindex \/ Diff

SpecDiff == InitDiff /\ [][NextDiff]_vars

---------------------------------------------------------------------------
(* What the claims about the diff engine are stated with. *)

HasValue(r) == "ParameterValue" \in DOMAIN r
NamesOf(list) == Range(NameList(list))
RecordOf(list, n) == list[CHOOSE i \in DOMAIN list : list[i]["ParameterName"] = n]

\* The source records that carry a value and are absent from, or unequal
\* in, the destination, in source order.
ExpectedDiff(source, dest) ==
    SelectSeq(source,
              LAMBDA r : /\ HasValue(r)
                         /\ \/ r["ParameterName"] \notin NamesOf(dest)
                            \/ RecordOf(dest, r["ParameterName"]) # r)

ReindexDone == pc \notin {"reindex"}
CompareEnded == pc \in {"done", "failed"}

SourceRaised == err = [type |-> "Exception", line |-> 207]
DestRaised == err = [type |-> "Exception", line |-> 208]

\* C1: reindexing a collection raises exactly when two of its records share
\* a name, and otherwise yields a mapping with one entry per record.
C1_DuplicateKeyExactly ==
    ReindexDone =>
        /\ SourceRaised <=> ~UniqueNames(source_list)
        /\ ~SourceRaised => Len(source_parameters) = Len(source_list)
        /\ ~SourceRaised => (DestRaised <=> ~UniqueNames(dest_list))

\* C2: for collections with unique names, the merge workflow's call returns
\* exactly the valued source records that are absent from or unequal in the
\* destination, in source order.
C2_DiffListExact ==
    (CompareEnded /\ args.action = "merge"
        /\ UniqueNames(source_list) /\ UniqueNames(dest_list)) =>
        /\ pc = "done"
        /\ returned = ReturnList(ExpectedDiff(source_list, dest_list))

EntriesOf(n) == {i \in DOMAIN report : report[i].name = n}
SourceOnly(n) == \E i \in EntriesOf(n) : report[i].lt # <<>> /\ report[i].gt = <<>>
Changed(n) == \E i \in EntriesOf(n) : report[i].lt # <<>> /\ report[i].gt # <<>>
DestOnly(n) == \E i \in EntriesOf(n) : report[i].lt = <<>> /\ report[i].gt # <<>>

ReportClassifies(source, dest) ==
    \A n \in Names :
        /\ Cardinality(EntriesOf(n)) <= 1
        /\ SourceOnly(n) <=> (n \in NamesOf(source) /\ n \notin NamesOf(dest))
        /\ Changed(n) <=> /\ n \in NamesOf(source) /\ n \in NamesOf(dest)
                          /\ RecordOf(source, n) # RecordOf(dest, n)
        /\ DestOnly(n) <=> (n \in NamesOf(dest) /\ n \notin NamesOf(source))

\* C10: for collections with unique names the report holds at most one entry
\* per name, classified source-only, changed or destination-only as the
\* name's presence and the records' equality say; a collection compared with
\* itself gives no entry and an empty diff list.
C10_ReportEntries ==
    (CompareEnded /\ UniqueNames(source_list) /\ UniqueNames(dest_list)) =>
        /\ pc = "done"
        /\ ReportClassifies(source_list, dest_list)
        /\ source_list = dest_list =>
                /\ report = <<>>
                /\ returned \in {ReturnNone, ReturnList(<<>>)}

\* What holds of the diff engine whenever the reindexing did not raise.
DiffWhenReindexed ==
    (pc = "done" /\ UniqueNames(source_list) /\ UniqueNames(dest_list)) =>
        /\ ReportClassifies(source_list, dest_list)
        /\ args.action = "merge" => returned = ReturnList(ExpectedDiff(source_list, dest_list))
        /\ args.action = "compare" => returned = ReturnNone
        /\ source_list = dest_list => report = <<>>

---------------------------------------------------------------------------
(* post_parameters_to_group, one step per statement of its loop. *)

\* The test on entry: an empty list returns at once.
PostEnter ==
    /\ pc = "post"
    /\ IF Len(parameters) = 0
       THEN pc' = "done" /\ start' = start
       ELSE pc' = "chunks" /\ start' = 0
    /\ UNCHANGED <<err, startVars, remoteVars, diffVars, dest_store, parameters,
                   calls, printed, pageVars>>

\* One pass of the loop whose modify call the remote service accepts: the
\* call, then the lines printed for the chunk's records.
PostChunk ==
    /\ pc = "chunks"
    /\ start < Len(parameters)
    /\ LET parameter_chunk == Chunk(parameters, start, BatchSize)
       IN /\ calls' = Append(calls, ModifyCall(clients.dest, "dst", parameter_chunk, TRUE))
          /\ dest_store' = StoreAll(dest_store, parameter_chunk, 1)
          /\ printed' = printed \o PrintLines(parameter_chunk)
    /\ start' = start + BatchSize
    /\ UNCHANGED <<pc, err, startVars, remoteVars, diffVars, parameters, pageVars>>

\* A pass that prints the chunk's lines before its modify call, which the
\* remote service rejects.
PostChunkRejectedAfterPrint ==
    /\ pc = "chunks"
    /\ start < Len(parameters)
    /\ printed' = printed \o PrintLines(Chunk(parameters, start, BatchSize))
    /\ calls' = Append(calls, ModifyCall(clients.dest, "dst",
                                         Chunk(parameters, start, BatchSize), FALSE))
    /\ pc' = "failed"
    /\ err' = [type |-> "ClientError", line |-> 268]
    /\ UNCHANGED <<startVars, remoteVars, diffVars, dest_store, parameters, start,
                   pageVars>>

\* One pass of the loop whose modify call the remote service rejects: the
\* exception leaves the function and ends the run.
PostChunkRejected ==
    /\ pc = "chunks"
    /\ start < Len(parameters)
    /\ calls' = Append(calls, ModifyCall(clients.dest, "dst",
                                         Chunk(parameters, start, BatchSize), FALSE))
    /\ pc' = "failed"
    /\ err' = [type |-> "ClientError", line |-> 268]
    /\ UNCHANGED <<startVars, remoteVars, diffVars, dest_store, parameters, start,
                   printed, pageVars>>

\* The generator is exhausted: the function returns.
PostReturn ==
    /\ pc = "chunks"
    /\ ~(start < Len(parameters))
    /\ pc' = "done"
    /\ UNCHANGED <<err, startVars, remoteVars, diffVars, postVars, pageVars>>

\* The lists posted on their own: n records with distinct names, or with
\* the names repeating every three records.
PostRecord(i, m) ==
    [ParameterName |-> ToString(IF m = 0 THEN i ELSE i % m),
     ParameterValue |-> ToString(i), IsModifiable |-> TRUE]
PostList(n, m) == [i \in 1..n |-> PostRecord(i, m)]

EmptyStore == [n \in {} |-> n]

InitPost ==
    /\ pc = "post"
    /\ err = NoError
    /\ argv = [DefaultArgv EXCEPT !.action = "merge"]
    /\ args = [DefaultArgs EXCEPT !.action = "merge"]
    /\ StartIdle
    /\ RemoteIdle
    /\ DiffIdle
    /\ dest_store = EmptyStore
    /\ parameters \in {PostList(n, m) : n \in 0..MaxPost, m \in {0, 3}}
    /\ start = 0
    /\ calls = <<>>
    /\ printed = <<>>
    /\ PageIdle

NextPost == PostEnter \/ PostChunk \/ PostChunkRejected \/ PostReturn

SpecPost == InitPost /\ [][NextPost]_vars

---------------------------------------------------------------------------
(* What the claims about the batch applier are stated with. *)

RECURSIVE Concat(_)
Concat(ss) == IF ss = <<>> THEN <<>> ELSE Head(ss) \o Concat(Tail(ss))

ModifyCalls == SelectSeq(calls, LAMBDA c : c.op = "modify_db_parameter_group")
AcceptedCalls == SelectSeq(ModifyCalls, LAMBDA c : c.ok)
Sent(cs) == Concat([i \in DOMAIN cs |-> cs[i].Parameters])
Prefix(s, n) == SubSeq(s, 1, Min(n, Len(s)))
CeilDiv(n, b) == (n + b - 1) \div b

\* C3: the modify calls carry, in call order, consecutive slices of the
\* list of 1 to 20 records each; a run that ends without a rejection has
\* sent the whole list in ceil(len/20) calls, none for an empty list.
C3_ChunksCoverList ==
    /\ \A i \in DOMAIN ModifyCalls :
            /\ Len(ModifyCalls[i].Parameters) >= 1
            /\ Len(ModifyCalls[i].Parameters) <= 20
    /\ Sent(ModifyCalls) = Prefix(parameters, Len(Sent(ModifyCalls)))
    /\ Len(parameters) = 0 => calls = <<>>
    /\ pc = "done" =>
            /\ Sent(ModifyCalls) = parameters
            /\ Len(ModifyCalls) = CeilDiv(Len(parameters), 20)

\* a list of three slices has been posted whole
C3_Witness ==
    /\ pc = "done"
    /\ Len(parameters) = 41
    /\ Len(ModifyCalls) = 3
    /\ Len(ModifyCalls[3].Parameters) = 1

PostFailed == pc = "failed" /\ err = [type |-> "ClientError", line |-> 268]

RejectedState ==
    PostFailed =>
        LET k == Len(ModifyCalls) IN
        /\ k >= 1
        /\ ~ModifyCalls[k].ok
        /\ \A i \in 1..(k - 1) : ModifyCalls[i].ok
        /\ Sent(ModifyCalls) = Prefix(parameters, k * 20)
        /\ dest_store = StoreAll(EmptyStore, Prefix(parameters, (k - 1) * 20), 1)
        /\ printed = PrintLines(Prefix(parameters, (k - 1) * 20))

\* C7: when the k-th slice is rejected the run has failed with slices
\* 1..k-1 applied and reported and nothing else; from then on no call is
\* issued, nothing is undone and nothing more is reported.
C7_RejectedSliceStops ==
    /\ [](RejectedState /\ printed = PrintLines(Sent(AcceptedCalls)))
    /\ [][PostFailed => UNCHANGED <<calls, dest_store, printed>>]_vars

\* the second slice of a list was rejected after the first was applied
C7_Witness ==
    /\ PostFailed
    /\ Len(ModifyCalls) = 2
    /\ Len(printed) = 20
    /\ Len(parameters) > 20

---------------------------------------------------------------------------
(* The pagination loops on their own, one step per pass of the loop, on    *)
(* every sequence of at most MaxPages pages whose last page carries no     *)
(* Marker (an earlier page may carry none either).                         *)

Markers == {"m1", "m2"}
GroupItems == SeqsUpTo([DBParameterGroupName : {"dst", "other"}], 1)
ParameterItems ==
    SeqsUpTo({[ParameterName |-> "x", ParameterValue |-> "1", IsModifiable |-> TRUE],
              [ParameterName |-> "y", IsModifiable |-> FALSE]}, 1)

GroupPages ==
    [DBParameterGroups : GroupItems]
        \cup [DBParameterGroups : GroupItems, Marker : Markers]
ParameterPages ==
    [Parameters : ParameterItems]
        \cup [Parameters : ParameterItems, Marker : Markers]

EndsWithoutMarker(ps) == Len(ps) >= 1 /\ "Marker" \notin DOMAIN ps[Len(ps)]

\* One pass of return_parameter_groups' loop that issues a request.
ListRequest ==
    /\ pc = "list_groups"
    /\ pagination_token # False
    /\ LET group_chunk == pages[Len(requests) + 1]
       IN /\ requests' = Append(requests,
                    DescribeRequest("describe_db_parameter_groups", pagination_token))
          /\ to_return' = to_return \o GroupNamesOf(group_chunk)
          /\ pagination_token' = NextToken(group_chunk)
    /\ UNCHANGED <<pc, err, startVars, remoteVars, diffVars, postVars, pages>>

\* The pass that finds pagination_token == False: the function returns.
ListReturn ==
    /\ pc = "list_groups"
    /\ pagination_token = False
    /\ pc' = "done"
    /\ UNCHANGED <<err, startVars, remoteVars, diffVars, postVars, pageVars>>

\* One pass of return_all_parameters_from_parameter_group's loop that
\* issues a request.
FetchRequest ==
    /\ pc = "fetch_parameters"
    /\ pagination_token # False
    /\ LET param_chunk == pages[Len(requests) + 1]
       IN /\ requests' = Append(requests,
                    DescribeRequest("describe_db_parameters", pagination_token))
          /\ to_return' = to_return \o param_chunk["Parameters"]
          /\ pagination_token' = NextToken(param_chunk)
    /\ UNCHANGED <<pc, err, startVars, remoteVars, diffVars, postVars, pages>>

FetchReturn ==
    /\ pc = "fetch_parameters"
    /\ pagination_token = False
    /\ pc' = "done"
    /\ UNCHANGED <<err, startVars, remoteVars, diffVars, postVars, pageVars>>

InitFetch ==
    /\ err = NoError
    /\ argv = DefaultArgv
    /\ args = DefaultArgs
    /\ StartIdle
    /\ RemoteIdle
    /\ DiffIdle
    /\ PostIdle
    /\ \/ /\ pc = "list_groups"
          /\ pages \in {ps \in SeqsUpTo(GroupPages, MaxPages) : EndsWithoutMarker(ps)}
       \/ /\ pc = "fetch_parameters"
          /\ pages \in {ps \in SeqsUpTo(ParameterPages, MaxPages) : EndsWithoutMarker(ps)}
    /\ pagination_token = None
    /\ requests = <<>>
    /\ to_return = <<>>

NextFetch == ListRequest \/ ListReturn \/ FetchRequest \/ FetchReturn

SpecFetch == InitFetch /\ [][NextFetch]_vars

\* The script is a single sequential process and a remote call is a blocking
\* call that returns: a loop that can take its next pass takes it.
FairSpecFetch == SpecFetch /\ WF_vars(NextFetch)

---------------------------------------------------------------------------
(* What the claim about the pagination loops is stated with. *)

\* the first page of the sequence that carries no Marker
FirstLast(ps) == CHOOSE i \in DOMAIN ps :
                    /\ "Marker" \notin DOMAIN ps[i]
                    /\ \A j \in 1..(i - 1) : "Marker" \in DOMAIN ps[j]

ItemsOf(page) ==
    IF "Parameters" \in DOMAIN page THEN page["Parameters"] ELSE GroupNamesOf(page)
PagesItems(ps, n) == Concat([i \in 1..n |-> ItemsOf(ps[i])])

CursorProtocol ==
    /\ \A i \in DOMAIN requests :
            IF i = 1 THEN "Marker" \notin DOMAIN requests[i]
            ELSE /\ "Marker" \in DOMAIN requests[i]
                 /\ "Marker" \in DOMAIN pages[i - 1]
                 /\ requests[i]["Marker"] = pages[i - 1]["Marker"]
    /\ Len(requests) <= FirstLast(pages)
    /\ to_return = PagesItems(pages, Len(requests))
    /\ pc = "done" => Len(requests) = FirstLast(pages)

\* C6: each loop sends its first request without a cursor and every later
\* one with the cursor of the response before it, asks for one page per
\* request up to the first page without a cursor and no further, ends, and
\* returns the items of those pages in response order.
C6_PaginationFollowsCursor == []CursorProtocol /\ <>(pc = "done")

\* a loop has returned after following one cursor, a later page left unasked
C6_Witness ==
    /\ pc = "done"
    /\ Len(requests) = 2
    /\ Len(pages) = 3
    /\ Len(to_return) = 2

---------------------------------------------------------------------------
(* The remote service as the workflows see it.                             *)

\* The pages describe_* serves for a listing of `items` under `key` when the
\* service's page holds ps items: every page but the last carries a Marker.
PageCount(items, ps) == IF Len(items) = 0 THEN 1 ELSE CeilDiv(Len(items), ps)
Paginate(items, key, ps) ==
    [i \in 1..PageCount(items, ps) |->
        IF i < PageCount(items, ps)
        THEN (key :> SubSeq(items, (i - 1) * ps + 1, i * ps)) @@ ("Marker" :> ToString(i * ps))
        ELSE (key :> SubSeq(items, (i - 1) * ps + 1, Len(items)))]

GroupDicts(names) == [i \in DOMAIN names |-> [DBParameterGroupName |-> names[i]]]

\* The remote group whose listing is `list`.
StoreOf(list) == StoreAll(EmptyStore, list, 1)

\* A group's listing: at most MaxStored records with unique names, in any
\* order.  The groups the copy workflow reads range over all records, the
\* groups compared and merged over the modifiable ones.
GroupListings(records) == {l \in SeqsUpTo(records, MaxStored) : UniqueNames(l)}
ModifiableRecords == {r \in Records : r["IsModifiable"]}

\* The names a region lists: unique, in any order.
RegionListings ==
    {l \in SeqsUpTo({"dst", "other"}, MaxStored) : Cardinality(Range(l)) = Len(l)}

---------------------------------------------------------------------------
(* The script run from the command line.                                   *)

\* The module-level read of os.environ, the argument parsing, the default
\* of the destination region and the construction of the two clients.
Startup ==
    /\ pc = "start"
    /\ IF environ = Unset
       THEN /\ pc' = "failed"
            /\ err' = [type |-> "KeyError", line |-> 62]
            /\ UNCHANGED <<args, clients>>
       ELSE LET default_source_region == environ
                source_region == IF argv.source_region = NotGiven
                                 THEN default_source_region
                                 ELSE argv.source_region
                dest_region == IF argv.dest_region = NotGiven
                               THEN source_region
                               ELSE argv.dest_region
            IN /\ args' = [action |-> argv.action, source_region |-> source_region,
                           dest_region |-> dest_region]
               /\ clients' = [source |-> source_region, dest |-> dest_region]
               /\ pc' = "execute"
               /\ err' = err
    /\ UNCHANGED <<environ, argv, remoteVars, diffVars, postVars, pageVars>>

\* What a call of compare_rds_parameters with outcome r leaves behind.
CompareOutcome(r, next) ==
    /\ source_parameters' = r.source_parameters
    /\ dest_parameters' = r.dest_parameters
    /\ report' = r.report
    /\ returned' = r.returned
    /\ err' = r.err
    /\ pc' = IF r.err = NoError THEN next ELSE "failed"

\* compare_rds_parameters against a remote whose source group lists src and
\* whose destination group lists dst, gone being the groups among the two
\* that do not exist, served in pages of ps records; next is where the
\* caller goes on when the function returns.
CompareCall(src, dst, gone, ps, return_list, next) ==
    /\ source_list' = src
    /\ dest_list' = dst
    /\ missing' = gone
    /\ dest_store' = StoreOf(dst)
    /\ IF "src" \in gone
       THEN /\ pc' = "failed"
            /\ err' = [type |-> "ClientError", line |-> 181]
            /\ UNCHANGED diffVars
       ELSE IF "dst" \in gone
       THEN /\ pc' = "failed"
            /\ err' = [type |-> "ClientError", line |-> 184]
            /\ UNCHANGED diffVars
       ELSE CompareOutcome(
                compare_rds_parameters(
                    return_all_parameters_from_parameter_group(
                        Paginate(src, "Parameters", ps)),
                    return_all_parameters_from_parameter_group(
                        Paginate(dst, "Parameters", ps)),
                    return_list),
                next)

\* The compare (or diff) action: the call with return_list=False.
ExecCompare ==
    /\ pc = "execute"
    /\ args.action \in {"compare", "diff"}
    /\ \E src \in GroupListings(ModifiableRecords),
          dst \in GroupListings(ModifiableRecords),
          gone \in SUBSET {"src", "dst"},
          ps \in 1..MaxPageSize :
            /\ ("src" \in gone => src = <<>>) /\ ("dst" \in gone => dst = <<>>)
            /\ CompareCall(src, dst, gone, ps, FALSE, "done")
    /\ UNCHANGED <<startVars, region_groups, parameters, start, calls, printed, pageVars>>

\* merge_rds_parameters up to its call of post_parameters_to_group.
MergeCompare ==
    /\ pc = "execute"
    /\ args.action = "merge"
    /\ \E src \in GroupListings(ModifiableRecords),
          dst \in GroupListings(ModifiableRecords),
          gone \in SUBSET {"src", "dst"},
          ps \in 1..MaxPageSize :
            /\ ("src" \in gone => src = <<>>) /\ ("dst" \in gone => dst = <<>>)
            /\ CompareCall(src, dst, gone, ps, TRUE, "post")
    /\ parameters' = IF pc' = "post" THEN returned'.value ELSE parameters
    /\ UNCHANGED <<startVars, region_groups, start, calls, printed, pageVars>>

\* copy_rds_parameters up to the test of the destination name.
CopyPrepare ==
    /\ pc = "execute"
    /\ args.action = "copy"
    /\ \E src \in GroupListings(Records),
          listing \in RegionListings,
          gone \in SUBSET {"src"},
          ps \in 1..MaxPageSize :
            /\ "src" \in gone => src = <<>>
            /\ source_list' = src
            /\ region_groups' = listing
            /\ missing' = gone
            /\ IF "src" \in gone
               THEN /\ pc' = "failed"
                    /\ err' = [type |-> "ClientError", line |-> 131]
                    /\ UNCHANGED source_parameters
               ELSE LET groups_in_dest_region ==
                            return_parameter_groups(
                                Paginate(GroupDicts(listing), "DBParameterGroups", ps))
                    IN /\ source_parameters' =
                            return_all_modifiable_parameters_with_value_from_parameter_group(
                                Paginate(src, "Parameters", ps))
                       /\ IF "dst" \in Range(groups_in_dest_region)
                          THEN /\ pc' = "failed"
                               /\ err' = [type |-> "ValueError", line |-> 139]
                          ELSE /\ pc' = "create"
                               /\ err' = err
    /\ UNCHANGED <<startVars, dest_list, dest_parameters, report, returned,
                   postVars, pageVars>>

CreateCall(region, param_group, ok) ==
    [op |-> "create_db_parameter_group", region |-> region,
     DBParameterGroupName |-> param_group, ok |-> ok]

\* The create call is accepted; the copy goes on to post source_parameters.
CopyCreate ==
    /\ pc = "create"
    /\ calls' = Append(calls, CreateCall(clients.dest, "dst", TRUE))
    /\ dest_store' = EmptyStore
    /\ parameters' = source_parameters
    /\ pc' = "post"
    /\ UNCHANGED <<err, startVars, remoteVars, diffVars, start, printed, pageVars>>

\* The create call is rejected by the remote service.
CopyCreateRejected ==
    /\ pc = "create"
    /\ calls' = Append(calls, CreateCall(clients.dest, "dst", FALSE))
    /\ pc' = "failed"
    /\ err' = [type |-> "ClientError", line |-> 161]
    /\ UNCHANGED <<startVars, remoteVars, diffVars, dest_store, parameters, start,
                   printed, pageVars>>

Init ==
    /\ pc = "start"
    /\ err = NoError
    /\ environ \in {Unset, "us-east-1"}
    /\ argv \in [action : {"compare", "copy", "diff", "merge"},
                 source_region : {NotGiven, "us-west-2"},
                 dest_region : {NotGiven, "eu-west-1"}]
    /\ args = DefaultArgs
    /\ clients = DefaultClients
    /\ RemoteIdle
    /\ DiffIdle
    /\ dest_store = EmptyStore
    /\ parameters = <<>>
    /\ start = 0
    /\ calls = <<>>
    /\ printed = <<>>
    /\ PageIdle

Next ==
    \/ Startup
    \/ ExecCompare
    \/ MergeCompare
    \/ CopyPrepare
    \/ CopyCreate
    \/ CopyCreateRejected
    \/ PostEnter
    \/ PostChunk
    \/ PostChunkRejected
    \/ PostReturn

Spec == Init /\ [][Next]_vars

---------------------------------------------------------------------------
(* What the claims about the workflows are stated with. *)

Started == pc # "start"
StartupFailed == err = [type |-> "KeyError", line |-> 62]

\* C5: startup fails exactly when no source region is given on the command
\* line and AWS_DEFAULT_REGION is unset; otherwise it succeeds and the
\* source client is built for the region given (or the default).
C5_StartupFailsExactly ==
    Started =>
        /\ StartupFailed <=> (argv.source_region = NotGiven /\ environ = Unset)
        /\ ~StartupFailed =>
                clients.source = IF argv.source_region = NotGiven
                                 THEN environ ELSE argv.source_region

\* What the script does instead: it fails whenever the variable is unset.
StartupAsCoded ==
    Started =>
        /\ StartupFailed <=> environ = Unset
        /\ ~StartupFailed =>
                /\ clients.source = IF argv.source_region = NotGiven
                                    THEN environ ELSE argv.source_region
                /\ clients.dest = IF argv.dest_region = NotGiven
                                  THEN clients.source ELSE argv.dest_region

CopyRead == argv.action = "copy" /\ pc \notin {"start", "execute"} /\ ~StartupFailed
DestListed == "dst" \in Range(region_groups)
AlreadyExists == err = [type |-> "ValueError", line |-> 139]

\* C4 as stated: whenever the destination name is in the destination
\* region's listing, the copy fails with the already-exists error and has
\* issued no create and no modify call.
C4_AlreadyExistsWheneverListed ==
    (CopyRead /\ DestListed) =>
        /\ pc = "failed"
        /\ AlreadyExists
        /\ calls = <<>>

\* C4 as amended: whenever the destination name is in the destination
\* region's listing, the copy fails having issued no create and no modify
\* call, with the already-exists error if the source group exists and with
\* the remote service's error for the source group if it does not.
C4_NoMutationWhenListed ==
    (CopyRead /\ DestListed) =>
        /\ pc = "failed"
        /\ calls = <<>>
        /\ dest_store = EmptyStore
        /\ "src" \notin missing => AlreadyExists
        /\ "src" \in missing => err = [type |-> "ClientError", line |-> 131]

\* a copy refused for a destination name listed on the second page
C4_Witness ==
    /\ CopyRead
    /\ AlreadyExists
    /\ region_groups = <<"other", "dst">>
    /\ source_list # <<>>

MergeDone == args.action = "merge" /\ pc = "done"
ValuedIn(list, n) == \E i \in DOMAIN list : list[i]["ParameterName"] = n /\ HasValue(list[i])
ValuedNames(list) == {n \in NamesOf(list) : ValuedIn(list, n)}

\* C8: after a merge that ended without error the destination group holds
\* its initial records overridden by the source records that carry a value,
\* every other initial record as it was, and no group was created.
C8_MergeOverridesOnly ==
    MergeDone =>
        /\ DOMAIN dest_store = NamesOf(dest_list) \cup ValuedNames(source_list)
        /\ \A n \in DOMAIN dest_store :
                dest_store[n] = IF n \in ValuedNames(source_list)
                                THEN RecordOf(source_list, n)
                                ELSE RecordOf(dest_list, n)
        /\ \A i \in DOMAIN calls : calls[i].op # "create_db_parameter_group"

\* a merge that added one parameter, overwrote another and kept a third
C8_Witness ==
    /\ MergeDone
    /\ \E n \in ValuedNames(source_list) : n \notin NamesOf(dest_list)
    /\ \E n \in ValuedNames(source_list) :
            n \in NamesOf(dest_list) /\ RecordOf(source_list, n) # RecordOf(dest_list, n)
    /\ \E n \in NamesOf(dest_list) : n \notin NamesOf(source_list)
    /\ Len(ModifyCalls) >= 1

CopyFetched == CopyRead /\ "src" \notin missing
ModifiableWithValue(list) == SelectSeq(list, LAMBDA r : r["IsModifiable"] /\ HasValue(r))

\* C9: the filter returns exactly the records that are modifiable and carry
\* a value, in fetch order; the copy sends these records, in that order and
\* no others, to the modify calls of the group it created.
C9_ModifiableWithValueOnly ==
    CopyFetched =>
        /\ source_parameters = ModifiableWithValue(source_list)
        /\ Sent(ModifyCalls) =
                Prefix(ModifiableWithValue(source_list), Len(Sent(ModifyCalls)))
        /\ \A i \in DOMAIN calls :
                /\ calls[i].DBParameterGroupName = "dst"
                /\ calls[i].region = clients.dest
                /\ (calls[i].op = "create_db_parameter_group") <=> (i = 1)
        /\ pc = "done" => Sent(AcceptedCalls) = ModifiableWithValue(source_list)

\* a copy that sent one record of a group and held back the other
C9_Witness ==
    /\ CopyFetched
    /\ pc = "done"
    /\ Len(source_list) = 2
    /\ Len(Sent(AcceptedCalls)) = 1
    /\ \E i \in DOMAIN source_list : ~source_list[i]["IsModifiable"] /\ HasValue(source_list[i])

===========================================================================
